---- MODULE Spec2Model ----
(***************************************************************************)
(* qgeometry: convex hull (graham_scan), Minkowski difference, GJK, EPA    *)
(* and the polygon / segment queries they use.                             *)
(*                                                                         *)
(* Scalars (qmath Q64) are fixed-point numbers: a scalar is the integer    *)
(* count of 1/Scale units it holds.  Addition and subtraction saturate at  *)
(* QMIN/QMAX, products are shifted back down (rounded towards minus        *)
(* infinity), quotients truncate towards zero, square roots round down.    *)
(* A vector (QVec2) and a point (QPoint) are pairs <<x, y>> of scalars; a  *)
(* polygon (QPolygon) is the sequence of its points.                       *)
(***************************************************************************)
EXTENDS Integers, Sequences, FiniteSets, TLC

\* ---------------------------------------------------------------- bounds
\* Units per 1.0 of the fixed-point scalar.
Scale == 4096
\* Largest coordinate (in whole units) of the vertices of the first shape.
GridMax == 2
\* Largest translation (in whole units) of the second shape.
ShiftMax == 2
\* HashSet iteration orders tried per call are numbered 0..MaxHashSeed.
MaxHashSeed == 1
\* Largest coordinate (in whole units) of the points handed to graham_scan.
HullGrid == 2
\* Most distinct points in a list handed to graham_scan directly.
MaxLen == 4

\* Largest scalar, in 1/Scale units; the smallest is one further from zero.
QMAX == 1073741823
QMIN == -QMAX - 1

\* ------------------------------------------------------------- Q64 scalar
Sat(x) == IF x > QMAX THEN QMAX ELSE IF x < QMIN THEN QMIN ELSE x

Abs(x) == IF x < 0 THEN -x ELSE x

\* Integer quotient truncated towards zero.
TruncDiv(a, b) ==
    IF (a >= 0) = (b > 0) THEN Abs(a) \div Abs(b) ELSE -(Abs(a) \div Abs(b))

q_add(a, b) == Sat(a + b)
q_sub(a, b) == Sat(a - b)
q_mul(a, b) == Sat((a * b) \div Scale)
\* a / b = whole + rest / b: the quotient a * Scale / b truncated towards
\* zero, taken in two parts so that no intermediate value leaves the range
\* of the integers it is computed in.
q_div(a, b) ==
    LET whole == TruncDiv(a, b)
        rest == a - whole * b
    IN  IF Abs(whole) > QMAX \div Scale
        THEN (IF whole > 0 THEN QMAX ELSE QMIN)
        ELSE Sat(whole * Scale + TruncDiv(rest * Scale, b))

RECURSIVE isqrt_between(_, _, _)
isqrt_between(n, lo, hi) ==
    IF lo >= hi THEN lo
    ELSE LET mid == (lo + hi + 1) \div 2
         IN  IF mid * mid <= n THEN isqrt_between(n, mid, hi)
             ELSE isqrt_between(n, lo, mid - 1)

\* Square root of a scalar, rounded down to the scalar's resolution.
q_sqrt(a) == IF a <= 0 THEN 0 ELSE isqrt_between(a * Scale, 0, 46340)

Q(n) == n * Scale

\* --------------------------------------------------------------- QVec2
ZERO == <<0, 0>>

v_sub(u, v) == <<q_sub(u[1], v[1]), q_sub(u[2], v[2])>>
v_add(u, v) == <<q_add(u[1], v[1]), q_add(u[2], v[2])>>
v_mul_num(u, t) == <<q_mul(u[1], t), q_mul(u[2], t)>>
dot(u, v) == q_add(q_mul(u[1], v[1]), q_mul(u[2], v[2]))
cross(u, v) == q_sub(q_mul(u[1], v[2]), q_mul(u[2], v[1]))
length_squared(u) == dot(u, u)
length(u) == q_sqrt(length_squared(u))
distance(u, v) == length(v_sub(u, v))

\* Sign of to_angle(v) - to_angle(u), the angles being atan2(y, x) in
\* (-pi, pi]: the half-open half-planes are ordered first, then the turn.
AngleClass(u) ==
    IF u[2] < 0 THEN 0
    ELSE IF u[2] = 0 /\ u[1] >= 0 THEN 1
    ELSE IF u[2] > 0 THEN 2
    ELSE 3

angle_diff_sign(u, v) ==
    IF AngleClass(u) # AngleClass(v)
    THEN (IF AngleClass(v) < AngleClass(u) THEN -1 ELSE 1)
    ELSE LET c == u[1] * v[2] - u[2] * v[1]
         IN  IF c < 0 THEN -1 ELSE IF c > 0 THEN 1 ELSE 0

\* ------------------------------------------------------------- sequences
Range(s) == {s[i] : i \in 1..Len(s)}

RECURSIVE SetToSeq(_)
SetToSeq(S) ==
    IF S = {} THEN <<>>
    ELSE LET x == CHOOSE x \in S : TRUE IN <<x>> \o SetToSeq(S \ {x})

Reverse(s) == [i \in 1..Len(s) |-> s[Len(s) + 1 - i]]
Rotate(s, k) == [i \in 1..Len(s) |-> s[((i - 1 + k) % Len(s)) + 1]]

HashSeeds == 0..MaxHashSeed

\* The order in which a std HashSet holding S yields its elements under the
\* RandomState numbered h: nothing in the program fixes it.
HashSetIter(S, h) ==
    IF S = {} THEN <<>>
    ELSE LET base == Rotate(SetToSeq(S), h \div 2)
         IN  IF h % 2 = 0 THEN base ELSE Reverse(base)

\* ------------------------------------------------------------ graham_scan
\* Comparator of the first sort: by y, then by x.
cmp_yx(a, b) ==
    IF a[2] < b[2] THEN "Less"
    ELSE IF a[2] > b[2] THEN "Greater"
    ELSE IF a[1] < b[1] THEN "Less"
    ELSE IF a[1] > b[1] THEN "Greater"
    ELSE "Equal"

\* Comparator of the second sort: the pivot first, then Less when
\* to_angle(b - pivot) - to_angle(a - pivot) is negative, Greater when it is
\* positive, and by squared distance to the pivot when the angles are equal.
cmp_angle(a, b, pivot) ==
    IF b = pivot THEN "Greater"
    ELSE IF a = pivot THEN "Less"
    ELSE LET sgn == angle_diff_sign(v_sub(a, pivot), v_sub(b, pivot))
             da == length_squared(v_sub(a, pivot))
             db == length_squared(v_sub(b, pivot))
         IN  IF sgn < 0 THEN "Less"
             ELSE IF sgn > 0 THEN "Greater"
             ELSE IF da < db THEN "Less"
             ELSE IF da > db THEN "Greater"
             ELSE "Equal"

\* Sorting keeps equal elements in their order (sort_by is stable; the
\* first sort compares distinct points, which are never equal).
RECURSIVE insert_yx(_, _)
insert_yx(s, p) ==
    IF s = <<>> THEN <<p>>
    ELSE IF cmp_yx(p, Head(s)) = "Less" THEN <<p>> \o s
    ELSE <<Head(s)>> \o insert_yx(Tail(s), p)

RECURSIVE sort_yx(_)
sort_yx(s) ==
    IF s = <<>> THEN <<>>
    ELSE insert_yx(sort_yx(SubSeq(s, 1, Len(s) - 1)), s[Len(s)])

RECURSIVE insert_angle(_, _, _)
insert_angle(s, p, pivot) ==
    IF s = <<>> THEN <<p>>
    ELSE IF cmp_angle(p, Head(s), pivot) = "Less" THEN <<p>> \o s
    ELSE <<Head(s)>> \o insert_angle(Tail(s), p, pivot)

RECURSIVE sort_angle(_, _)
sort_angle(s, pivot) ==
    IF s = <<>> THEN <<>>
    ELSE insert_angle(sort_angle(SubSeq(s, 1, Len(s) - 1), pivot), s[Len(s)], pivot)

\* The stack test letting a zero cross product stay.
keeps_top_nonstrict(next_to_top, top, p) ==
    cross(<<p[1] - next_to_top[1], p[2] - next_to_top[2]>>,
          <<top[1] - next_to_top[1], top[2] - next_to_top[2]>>) >= 0

\* The test that keeps the top of the stack when p arrives.
keeps_top(next_to_top, top, p) ==
    cross(<<p[1] - next_to_top[1], p[2] - next_to_top[2]>>,
          <<top[1] - next_to_top[1], top[2] - next_to_top[2]>>) > 0

\* The inner while loop: pop until the stack is short or the top is kept.
RECURSIVE pop_while(_, _)
pop_while(stack, p) ==
    IF Len(stack) >= 2
    THEN IF keeps_top(stack[Len(stack) - 1], stack[Len(stack)], p)
         THEN stack
         ELSE pop_while(SubSeq(stack, 1, Len(stack) - 1), p)
    ELSE stack

\* The for loop over unique_points[2..], i counted from 1 here.
RECURSIVE scan_from(_, _, _)
scan_from(sorted, i, stack) ==
    IF i > Len(sorted) THEN stack
    ELSE scan_from(sorted, i + 1, Append(pop_while(stack, sorted[i]), sorted[i]))

\* graham_scan(points), the HashSet that removes the duplicates iterating
\* in the order numbered h.
graham_scan(points, h) ==
    LET unique_points == HashSetIter(Range(points), h)
    IN  IF Len(unique_points) < 3 THEN unique_points
        ELSE LET by_yx  == sort_yx(unique_points)
                 pivot  == by_yx[1]
                 sorted == sort_angle(by_yx, pivot)
             IN  scan_from(sorted, 3, <<sorted[1], sorted[2]>>)

\* --------------------------------------------------- Minkowski difference
\* The pairwise sums a + b instead of the differences.
all_sum_points(shape_a, shape_b) ==
    [k \in 1..(Len(shape_a) * Len(shape_b)) |->
        v_add(shape_a[((k - 1) \div Len(shape_b)) + 1],
              shape_b[((k - 1) % Len(shape_b)) + 1])]

\* The |A|*|B| differences a - b, in the order of the two nested loops.
all_diff_points(shape_a, shape_b) ==
    [k \in 1..(Len(shape_a) * Len(shape_b)) |->
        v_sub(shape_a[((k - 1) \div Len(shape_b)) + 1],
              shape_b[((k - 1) % Len(shape_b)) + 1])]

get_minkowski_difference(shape_a, shape_b, h) ==
    graham_scan(all_diff_points(shape_a, shape_b), h)

\* ------------------------------------------------------------------ QLine
\* A line is <<start, end>>; QLine::new refuses start = end.
line_vector(line) == v_sub(line[2], line[1])

\* is_point_on_line leaving out the two ends of the segment.
is_point_on_line_open(line, point) ==
    LET ab == v_sub(line[2], line[1])
        ap == v_sub(point, line[1])
    IN  IF cross(ap, ab) # 0 THEN FALSE
        ELSE dot(ap, ab) > 0 /\ dot(ap, ab) < length_squared(ab)

is_point_on_line(line, point) ==
    LET ab == v_sub(line[2], line[1])
        ap == v_sub(point, line[1])
    IN  IF cross(ap, ab) # 0 THEN FALSE
        ELSE dot(ap, ab) >= 0 /\ dot(ap, ab) <= length_squared(ab)

get_x_at_y(line, y) ==
    LET vi == line[1]
        vj == line[2]
    IN  IF vj[2] = vi[2] THEN vi[1]
        ELSE q_add(q_mul(q_sub(vj[1], vi[1]),
                         q_div(q_sub(y, vi[2]), q_sub(vj[2], vi[2]))),
                   vi[1])

get_perpendicular_vector_from_point(line, point) ==
    LET vector_ab == v_sub(line[2], line[1])
        vector_ap == v_sub(point, line[1])
        t == q_div(dot(vector_ap, vector_ab), dot(vector_ab, vector_ab))
    IN  v_add(v_sub(line[1], point), v_mul_num(vector_ab, t))

get_perpendicular_distance_from_point(line, point) ==
    length(get_perpendicular_vector_from_point(line, point))

get_distance_from_point(line, point) ==
    IF line[1] = line[2] THEN distance(line[1], point)
    ELSE LET segment_vector == line_vector(line)
             segment_length_squared == length_squared(segment_vector)
         IN  IF segment_length_squared = 0 THEN distance(line[1], point)
             ELSE LET point_vector == v_sub(point, line[1])
                      projection == dot(point_vector, segment_vector)
                      t == q_div(projection, segment_length_squared)
                  IN  IF t < 0 THEN distance(line[1], point)
                      ELSE IF t > Scale THEN distance(line[2], point)
                      ELSE get_perpendicular_distance_from_point(line, point)

\* --------------------------------------------------------------- QPolygon
\* The loop of is_point_inside from index i on (1-based), j the previous
\* index and rst the parity so far.  "panic" is QLine::new refusing an edge
\* whose two ends are equal.
RECURSIVE point_inside_from(_, _, _, _, _)
point_inside_from(points, point, i, j, rst) ==
    IF i > Len(points) THEN (IF rst THEN "true" ELSE "false")
    ELSE LET vi == points[i]
             vj == points[j]
         IN  IF vi = vj THEN "panic"
             ELSE IF is_point_on_line(<<vi, vj>>, point) THEN "true"
             ELSE LET straddles == (vi[2] > point[2]) # (vj[2] > point[2])
                      flips == straddles /\ point[1] < get_x_at_y(<<vi, vj>>, point[2])
                  IN  point_inside_from(points, point, i + 1, i,
                                        IF flips THEN ~rst ELSE rst)

is_point_inside(points, point) ==
    IF Len(points) < 3 THEN "false"
    ELSE point_inside_from(points, point, 1, Len(points), FALSE)

\* The scan keeping what it had collected when a nearer edge turns up.
RECURSIVE nearest_from_no_clear(_, _, _, _, _, _)
nearest_from_no_clear(points, point, i, j, min_dist, rst) ==
    IF i > Len(points) THEN rst
    ELSE LET line_distance == get_distance_from_point(<<points[j], points[i]>>, point)
         IN  IF line_distance <= min_dist
             THEN nearest_from_no_clear(points, point, i + 1, i, line_distance,
                                        rst \o <<j - 1, i - 1>>)
             ELSE nearest_from_no_clear(points, point, i + 1, i, min_dist, rst)

\* The scan of get_nearest_lines_index_to_point from index i on (1-based);
\* the indices collected in rst are the program's, counted from 0.
RECURSIVE nearest_from(_, _, _, _, _, _)
nearest_from(points, point, i, j, min_dist, rst) ==
    IF i > Len(points) THEN rst
    ELSE LET line_distance == get_distance_from_point(<<points[j], points[i]>>, point)
         IN  IF line_distance < min_dist
             THEN nearest_from(points, point, i + 1, i, line_distance, <<j - 1, i - 1>>)
             ELSE IF line_distance = min_dist
             THEN nearest_from(points, point, i + 1, i, min_dist, rst \o <<j - 1, i - 1>>)
             ELSE nearest_from(points, point, i + 1, i, min_dist, rst)

get_nearest_lines_index_to_point(points, point) ==
    IF Len(points) < 2 THEN <<>>
    ELSE IF Len(points) = 2 THEN <<0, 1>>
    ELSE nearest_from(points, point, 1, Len(points), QMAX, <<>>)

\* QLine::new panics inside the scan when two cyclically consecutive
\* vertices are equal.
nearest_lines_panics(points) ==
    /\ Len(points) >= 3
    /\ \E i \in 1..Len(points) : points[i] = points[(i % Len(points)) + 1]

\* ------------------------------------------------------------- gjk / epa
gjk(shape_a, shape_b, h) ==
    is_point_inside(get_minkowski_difference(shape_a, shape_b, h), ZERO)

None == [tag |-> "None", v |-> ZERO]
Panic == [tag |-> "panic", v |-> ZERO]
Some(v) == [tag |-> "Some", v |-> v]

\* epa without the test that the origin is inside the difference polygon.
epa_unchecked(shape_a, shape_b, h) ==
    LET minkowski_difference == get_minkowski_difference(shape_a, shape_b, h)
        nearest_lines_index == get_nearest_lines_index_to_point(minkowski_difference, ZERO)
    IN  IF nearest_lines_panics(minkowski_difference) THEN Panic
        ELSE IF Len(nearest_lines_index) < 2 THEN None
        ELSE LET start == minkowski_difference[nearest_lines_index[1] + 1]
                 end == minkowski_difference[nearest_lines_index[2] + 1]
             IN  IF start = end THEN Panic
                 ELSE Some(get_perpendicular_vector_from_point(<<start, end>>, ZERO))

\* epa returning the vector negated.
epa_negated(shape_a, shape_b, h) ==
    LET minkowski_difference == get_minkowski_difference(shape_a, shape_b, h)
        inside == is_point_inside(minkowski_difference, ZERO)
        nearest_lines_index == get_nearest_lines_index_to_point(minkowski_difference, ZERO)
    IN  IF inside = "panic" THEN Panic
        ELSE IF inside = "true"
        THEN IF nearest_lines_panics(minkowski_difference) THEN Panic
             ELSE IF Len(nearest_lines_index) < 2 THEN Panic
             ELSE LET start == minkowski_difference[nearest_lines_index[1] + 1]
                      end == minkowski_difference[nearest_lines_index[2] + 1]
                      w == get_perpendicular_vector_from_point(<<start, end>>, ZERO)
                  IN  IF start = end THEN Panic
                      ELSE Some(<<-w[1], -w[2]>>)
        ELSE None

epa(shape_a, shape_b, h) ==
    LET minkowski_difference == get_minkowski_difference(shape_a, shape_b, h)
        inside == is_point_inside(minkowski_difference, ZERO)
        nearest_lines_index == get_nearest_lines_index_to_point(minkowski_difference, ZERO)
    IN  IF inside = "panic" THEN Panic
        ELSE IF inside = "true"
        THEN IF nearest_lines_panics(minkowski_difference) THEN Panic
             ELSE IF Len(nearest_lines_index) < 2 THEN Panic
             ELSE LET start == minkowski_difference[nearest_lines_index[1] + 1]
                      end == minkowski_difference[nearest_lines_index[2] + 1]
                  IN  IF start = end THEN Panic
                      ELSE Some(get_perpendicular_vector_from_point(<<start, end>>, ZERO))
        ELSE None

\* ----------------------------------------------------------------- shapes
\* A shape is [type, pts]: a QPoint holds <<pos>>, a QLine <<start, end>>,
\* a QBbox <<left_bottom, right_top>>, a QPolygon its vertices.
QPoint(pos) == [type |-> "QPoint", pts |-> <<pos>>]
QLine(start, end) == [type |-> "QLine", pts |-> <<start, end>>]
QBbox(left_bottom, right_top) == [type |-> "QBbox", pts |-> <<left_bottom, right_top>>]
QPolygon(vertices) == [type |-> "QPolygon", pts |-> vertices]

\* QShapeCommon::points of each variant.
points(shape) ==
    IF shape.type = "QBbox"
    THEN LET left_bottom == shape.pts[1]
             right_top == shape.pts[2]
         IN  <<left_bottom, <<left_bottom[1], right_top[2]>>,
               right_top, <<right_top[1], left_bottom[2]>>>>
    ELSE shape.pts

\* QShapeCommon::is_collide, the same body in every variant.
is_collide(self, other, h) == gjk(points(self), points(other), h)

\* ===================================================================
\* State: a caller of the library.  pc is the caller's position; input and
\* input2 are point lists handed to graham_scan and hull, hull2 what it
\* returned; shape_a, shape_b are the two shapes handed to gjk / epa,
\* collide, collide_rev and sep what those returned; moved tells that
\* shape_b has been translated by the vector epa returned; query is the
\* argument of a single polygon operation and result what it returned.
VARIABLES pc, input, input2, hull, hull2, shape_a, shape_b,
          collide, collide_rev, sep, moved, query, result

vars == <<pc, input, input2, hull, hull2, shape_a, shape_b,
          collide, collide_rev, sep, moved, query, result>>

hull_vars == <<input, input2, hull, hull2>>
shape_vars == <<shape_a, shape_b, collide, collide_rev, sep, moved>>
query_vars == <<query, result>>

NoShape == QPolygon(<<>>)

\* ------------------------------------------------ callers of graham_scan
HullGridPoints == {<<Q(x), Q(y)>> : x \in 0..HullGrid, y \in 0..HullGrid}

InputLists ==
    {SetToSeq(S) : S \in {T \in SUBSET HullGridPoints : Cardinality(T) <= MaxLen}}

\* The same points in another order, or with one of them repeated.
Rearrangements(s) ==
    {[i \in 1..Len(s) |-> s[f[i]]] : f \in Permutations(1..Len(s))}
    \cup {Append(s, s[i]) : i \in 1..Len(s)}
    \cup {<<s[i]>> \o s : i \in 1..Len(s)}

HullInit ==
    /\ pc = "start"
    /\ input \in InputLists
    /\ input2 = input
    /\ hull = <<>>
    /\ hull2 = <<>>
    /\ shape_a = NoShape
    /\ shape_b = NoShape
    /\ collide = "unset"
    /\ collide_rev = "unset"
    /\ sep = None
    /\ moved = FALSE
    /\ query = <<>>
    /\ result = <<>>

CallGrahamScan ==
    /\ pc = "start"
    /\ \E h \in HashSeeds : hull' = graham_scan(input, h)
    /\ pc' = "first"
    /\ UNCHANGED <<input, input2, hull2>>
    /\ UNCHANGED shape_vars
    /\ UNCHANGED query_vars

Rearrange ==
    /\ pc = "first"
    /\ input2' \in Rearrangements(input)
    /\ pc' = "rearranged"
    /\ UNCHANGED <<input, hull, hull2>>
    /\ UNCHANGED shape_vars
    /\ UNCHANGED query_vars

CallGrahamScanAgain ==
    /\ pc \in {"first", "rearranged"}
    /\ \E h \in HashSeeds : hull2' = graham_scan(input2, h)
    /\ pc' = "second"
    /\ UNCHANGED <<input, input2, hull>>
    /\ UNCHANGED shape_vars
    /\ UNCHANGED query_vars

HullNext == CallGrahamScan \/ Rearrange \/ CallGrahamScanAgain

SpecHull == HullInit /\ [][HullNext]_vars

\* ---------------------------------------------------- exact plane geometry
\* Twice the signed area of the triangle a b c, in exact integers.
Orient(a, b, c) ==
    (b[1] - a[1]) * (c[2] - a[2]) - (b[2] - a[2]) * (c[1] - a[1])

Sign(x) == IF x < 0 THEN -1 ELSE IF x > 0 THEN 1 ELSE 0

Between(lo, x, hi) == (lo <= x /\ x <= hi) \/ (hi <= x /\ x <= lo)

\* p lies on the closed segment a b.
OnSegment(p, a, b) ==
    /\ Orient(a, b, p) = 0
    /\ Between(a[1], p[1], b[1])
    /\ Between(a[2], p[2], b[2])

\* p lies in the closed triangle a b c (which may be flat).
InTriangle(p, a, b, c) ==
    IF Orient(a, b, c) = 0
    THEN OnSegment(p, a, b) \/ OnSegment(p, b, c) \/ OnSegment(p, a, c)
    ELSE LET s1 == Sign(Orient(a, b, p))
             s2 == Sign(Orient(b, c, p))
             s3 == Sign(Orient(c, a, p))
         IN  ~(({s1, s2, s3} \cap {1}) # {} /\ ({s1, s2, s3} \cap {-1}) # {})

\* p lies in the convex hull of the point set S.
InConvexHull(p, S) == \E a \in S, b \in S, c \in S : InTriangle(p, a, b, c)

ExtremePoints(S) == {p \in S : ~InConvexHull(p, S \ {p})}

Collinear(S) == \A a \in S, b \in S, c \in S : Orient(a, b, c) = 0

NoRepeats(s) == \A i \in 1..Len(s), j \in 1..Len(s) : s[i] = s[j] => i = j

\* The turn at s[i] going round the cyclic sequence s.
TurnAt(s, i) ==
    Orient(s[i], s[(i % Len(s)) + 1], s[((i + 1) % Len(s)) + 1])

IsExactHull(pts, h) ==
    /\ Range(h) = ExtremePoints(Range(pts))
    /\ NoRepeats(h)
    /\ Len(h) <= Cardinality(Range(pts))

\* C7: whatever list graham_scan is given, the vertices it returns are
\* exactly the extreme points of the list: input points only, none inside
\* the hull or inside a hull edge, none missing, none twice.
C7_HullIsExtremePoints ==
    /\ pc \in {"first", "rearranged", "second"} => IsExactHull(input, hull)
    /\ pc = "second" => IsExactHull(input2, hull2)

\* C7 witness: a returned hull that left out a point lying on a hull edge
\* and one that left out an interior point.
C7_Witness ==
    /\ pc = "first"
    /\ Len(hull) = 3
    /\ \E p \in Range(input) \ Range(hull) :
          \E i \in 1..3 : OnSegment(p, hull[i], hull[(i % 3) + 1])

\* C8: graham_scan returns the same vertex sequence for a list and for any
\* rearrangement of it (another order, points repeated).
C8_OrderAndDuplicateInvariant ==
    pc = "second" => hull2 = hull

\* C9: two evaluations of graham_scan on the same list return the same
\* vertex sequence.
C9_SameInputSameOutput ==
    (pc = "second" /\ input2 = input) => hull2 = hull

\* C10: for at least 3 points not all on a line, every cyclically
\* consecutive triple of returned vertices turns strictly counter-clockwise.
C10_HullIsCounterClockwise ==
    (pc = "first" /\ ~Collinear(Range(input)))
        => \A i \in 1..Len(hull) : TurnAt(hull, i) > 0

\* What graham_scan returns instead: strictly convex, clockwise.
HullIsClockwise ==
    (pc = "first" /\ ~Collinear(Range(input)))
        => (Len(hull) >= 3 /\ \A i \in 1..Len(hull) : TurnAt(hull, i) < 0)

\* ------------------------------------------------- callers of gjk and epa
GridPoints == {<<Q(x), Q(y)>> : x \in 0..GridMax, y \in 0..GridMax}

\* First shapes: every triangle of the grid, a triangle with an edge of
\* slope 3, the squares of side 1 and 2 at the origin, a concave
\* quadrilateral, and polygons too small or too flat to enclose anything.
Triangles ==
    {SetToSeq(T) : T \in {U \in SUBSET GridPoints : Cardinality(U) = 3 /\ ~Collinear(U)}}

Square(x, y, side) ==
    <<<<Q(x), Q(y)>>, <<Q(x + side), Q(y)>>,
      <<Q(x + side), Q(y + side)>>, <<Q(x), Q(y + side)>>>>

FlatPolygons ==
    { <<>>,
      << <<Q(1), Q(1)>> >>,
      << <<Q(0), Q(0)>>, <<Q(1), Q(1)>> >>,
      << <<Q(0), Q(0)>>, <<Q(1), Q(0)>>, <<Q(2), Q(0)>> >> }

PolygonsA ==
    Triangles
    \cup {<< <<Q(0), Q(0)>>, <<Q(0), Q(1)>>, <<Q(1), Q(3)>> >>}
    \cup {Square(0, 0, 1), Square(0, 0, 2)}
    \cup {<< <<Q(0), Q(0)>>, <<Q(2), Q(0)>>, <<Q(1), Q(1)>>, <<Q(1), Q(2)>> >>}
    \cup FlatPolygons

translate(vertices, v) == [i \in 1..Len(vertices) |-> v_add(vertices[i], v)]

Half == Scale \div 2
Quarter == Scale \div 4

\* Second shapes: a right triangle, a unit square, a skew triangle, the
\* unit square at (0.5, 0.5), the same square one unit of resolution
\* higher, a skew triangle with vertices at quarter units, a point and a
\* segment, each translated by whole units.
BasePolygonsB ==
    { << <<Q(0), Q(0)>>, <<Q(1), Q(0)>>, <<Q(0), Q(1)>> >>,
      Square(0, 0, 1),
      << <<Q(0), Q(0)>>, <<Q(2), Q(1)>>, <<Q(1), Q(2)>> >>,
      translate(Square(0, 0, 1), <<Half, Half>>),
      translate(Square(0, 0, 1), <<Half, Half + 1>>),
      << <<Quarter, Q(0)>>, <<Q(2), Q(1) + Quarter>>, <<Q(2) - Quarter, Q(2)>> >>,
      << <<Q(0), Q(0)>> >>,
      << <<Q(0), Q(0)>>, <<Q(1), Q(1)>> >> }

PolygonsB ==
    {translate(b, <<Q(dx), Q(dy)>>) :
        b \in BasePolygonsB, dx \in 0..ShiftMax, dy \in 0..ShiftMax}

CollideInit ==
    /\ pc = "start"
    /\ shape_a \in {QPolygon(a) : a \in PolygonsA}
    /\ shape_b \in {QPolygon(b) : b \in PolygonsB}
    /\ collide = "unset"
    /\ collide_rev = "unset"
    /\ sep = None
    /\ moved = FALSE
    /\ query = <<>>
    /\ result = <<>>
    /\ input = <<>>
    /\ input2 = <<>>
    /\ hull = <<>>
    /\ hull2 = <<>>

CallGjk ==
    /\ pc = "start"
    /\ \E h \in HashSeeds : collide' = gjk(shape_a.pts, shape_b.pts, h)
    /\ pc' = "gjk"
    /\ UNCHANGED <<shape_a, shape_b, collide_rev, sep, moved>>
    /\ UNCHANGED hull_vars
    /\ UNCHANGED query_vars

CallGjkSwapped ==
    /\ pc = "gjk"
    /\ \E h \in HashSeeds : collide_rev' = gjk(shape_b.pts, shape_a.pts, h)
    /\ pc' = "swapped"
    /\ UNCHANGED <<shape_a, shape_b, collide, sep, moved>>
    /\ UNCHANGED hull_vars
    /\ UNCHANGED query_vars

CallEpa ==
    /\ pc = "swapped"
    /\ \E h \in HashSeeds : sep' = epa(shape_a.pts, shape_b.pts, h)
    /\ pc' = "epa"
    /\ UNCHANGED <<shape_a, shape_b, collide, collide_rev, moved>>
    /\ UNCHANGED hull_vars
    /\ UNCHANGED query_vars

\* The caller moves the second shape by the vector epa returned.
Separate ==
    /\ pc = "epa"
    /\ sep.tag = "Some"
    /\ shape_b' = QPolygon(translate(shape_b.pts, sep.v))
    /\ moved' = TRUE
    /\ pc' = "moved"
    /\ UNCHANGED <<shape_a, collide, collide_rev, sep>>
    /\ UNCHANGED hull_vars
    /\ UNCHANGED query_vars

CallGjkMoved ==
    /\ pc = "moved"
    /\ \E h \in HashSeeds : collide' = gjk(shape_a.pts, shape_b.pts, h)
    /\ pc' = "done"
    /\ UNCHANGED <<shape_a, shape_b, collide_rev, sep, moved>>
    /\ UNCHANGED hull_vars
    /\ UNCHANGED query_vars

CollideNext == CallGjk \/ CallGjkSwapped \/ CallEpa \/ Separate \/ CallGjkMoved

SpecCollide == CollideInit /\ [][CollideNext]_vars

\* -------------------------------------------- exact geometry of regions
\* The closed segments a1 a2 and b1 b2 share a point.
SegmentsMeet(a1, a2, b1, b2) ==
    LET o1 == Sign(Orient(a1, a2, b1))
        o2 == Sign(Orient(a1, a2, b2))
        o3 == Sign(Orient(b1, b2, a1))
        o4 == Sign(Orient(b1, b2, a2))
    IN  \/ (o1 * o2 < 0 /\ o3 * o4 < 0)
        \/ OnSegment(b1, a1, a2) \/ OnSegment(b2, a1, a2)
        \/ OnSegment(a1, b1, b2) \/ OnSegment(a2, b1, b2)

\* The convex regions spanned by the vertex sets SA and SB share a point.
RegionsMeet(SA, SB) ==
    \/ \E a \in SA : InConvexHull(a, SB)
    \/ \E b \in SB : InConvexHull(b, SA)
    \/ \E a1 \in SA, a2 \in SA, b1 \in SB, b2 \in SB : SegmentsMeet(a1, a2, b1, b2)

\* The regions share a point that is interior to both.
Solid(S) == Cardinality(S) >= 3 /\ ~Collinear(S)

\* p lies on an edge of the cyclic vertex sequence poly.
OnBoundary(p, poly) ==
    \E i \in 1..Len(poly) : OnSegment(p, poly[i], poly[(i % Len(poly)) + 1])

\* Every coordinate of the vertex list is a whole number of units.
WholeUnits(vertices) ==
    \A i \in 1..Len(vertices) : vertices[i][1] % Scale = 0 /\ vertices[i][2] % Scale = 0

\* The difference polygon of the two shapes as they stand.
DiffNow == get_minkowski_difference(shape_a.pts, shape_b.pts, 0)

\* C1: for two polygons that each have 3 vertices not on a line, all at
\* whole-number coordinates, gjk is true exactly when their closed regions
\* share a point.
C1_GjkIffRegionsMeet ==
    (/\ pc \in {"gjk", "swapped", "epa"}
     /\ Solid(Range(shape_a.pts)) /\ Solid(Range(shape_b.pts))
     /\ WholeUnits(shape_a.pts) /\ WholeUnits(shape_b.pts))
        => (collide = IF RegionsMeet(Range(shape_a.pts), Range(shape_b.pts))
                      THEN "true" ELSE "false")

\* C1 witness: two solid grid polygons that only touch, reported as
\* colliding.
C1_Witness ==
    /\ pc = "gjk"
    /\ Solid(Range(shape_a.pts)) /\ Solid(Range(shape_b.pts))
    /\ WholeUnits(shape_a.pts) /\ WholeUnits(shape_b.pts)
    /\ collide = "true"
    /\ Cardinality(Range(shape_a.pts) \cap Range(shape_b.pts)) = 1
    /\ OnBoundary(ZERO, DiffNow)

\* C3: epa returns Some exactly when gjk returned true and None exactly
\* when gjk returned false, for every pair of polygons.
C3_EpaSomeIffGjk ==
    pc = "epa" =>
        /\ (sep.tag = "Some") = (collide = "true")
        /\ (sep.tag = "None") = (collide = "false")

\* C3 witness: both outcomes are taken; this one is an overlap.
C3_Witness ==
    /\ pc = "epa"
    /\ sep.tag = "Some"
    /\ sep.v # ZERO
    /\ Solid(Range(shape_a.pts)) /\ Solid(Range(shape_b.pts))

\* The second shape as it was before the caller moved it.
ShapeBBefore == translate(shape_b.pts, <<-sep.v[1], -sep.v[2]>>)

NotStrictlyInside ==
    collide = "false" \/ (collide = "true" /\ OnBoundary(ZERO, DiffNow))

EdgeInto(poly, k) == <<poly[IF k = 1 THEN Len(poly) ELSE k - 1], poly[k]>>

EdgeDistance(poly, k) == get_distance_from_point(EdgeInto(poly, k), ZERO)

\* The first edge, in scan order, whose distance to the origin is least.
FirstNearestEdge(poly) ==
    LET least == CHOOSE k \in 1..Len(poly) :
                    /\ \A m \in 1..Len(poly) : EdgeDistance(poly, k) <= EdgeDistance(poly, m)
                    /\ \A m \in 1..(k - 1) : EdgeDistance(poly, m) > EdgeDistance(poly, k)
    IN  EdgeInto(poly, least)

\* v is on the line through the edge and at right angles to it, as nearly
\* as the resolution of the projection parameter allows.
IsFootOnLine(v, edge) ==
    LET abu == <<(edge[2][1] - edge[1][1]) \div Scale, (edge[2][2] - edge[1][2]) \div Scale>>
    IN  /\ Orient(edge[1], edge[2], v) = 0
        /\ Abs(v[1] * abu[1] + v[2] * abu[2]) <= abu[1] * abu[1] + abu[2] * abu[2]

\* C5: the vector epa returns is the foot of the perpendicular from the
\* origin onto the line through the first nearest edge of the difference
\* polygon, and its length is the least distance from the origin to an edge.
C5_EpaIsFootOnNearestEdge ==
    (pc = "epa" /\ sep.tag = "Some") =>
        LET edge == FirstNearestEdge(DiffNow)
        IN  /\ sep.v = get_perpendicular_vector_from_point(edge, ZERO)
            /\ \A k \in 1..Len(DiffNow) : length(sep.v) <= EdgeDistance(DiffNow, k)
            /\ \E k \in 1..Len(DiffNow) : length(sep.v) = EdgeDistance(DiffNow, k)
            /\ (WholeUnits(shape_a.pts) /\ WholeUnits(shape_b.pts))
                   => IsFootOnLine(sep.v, edge)

\* C5 witness: the origin strictly inside, and the nearest edge not the
\* first one scanned.
C5_Witness ==
    /\ pc = "epa"
    /\ sep.tag = "Some"
    /\ sep.v # ZERO
    /\ FirstNearestEdge(DiffNow) # EdgeInto(DiffNow, 1)
    /\ Solid(Range(shape_a.pts)) /\ Solid(Range(shape_b.pts))

\* C6: gjk gives the same verdict with its two arguments exchanged.
C6_GjkSymmetric ==
    pc \in {"swapped", "epa"} => collide_rev = collide

\* What does hold: the two verdicts agree for polygons whose vertices all
\* have whole-number coordinates.
GjkSymmetricWholeUnits ==
    (pc \in {"swapped", "epa"} /\ WholeUnits(shape_a.pts) /\ WholeUnits(shape_b.pts))
        => collide_rev = collide

\* ----------------------------------------------------- callers of is_collide
PointShapes == {QPoint(p) : p \in GridPoints}

LineShapes ==
    {QLine(l[1], l[2]) : l \in {m \in GridPoints \X GridPoints : cmp_yx(m[1], m[2]) = "Less"}}

BboxShapes ==
    {QBbox(b[1], b[2]) :
        b \in {c \in GridPoints \X GridPoints : c[1][1] < c[2][1] /\ c[1][2] < c[2][2]}}

ShapesInit ==
    /\ pc = "start"
    /\ shape_a \in PointShapes \cup LineShapes
    /\ shape_b \in PointShapes \cup LineShapes \cup BboxShapes
    /\ collide = "unset"
    /\ collide_rev = "unset"
    /\ sep = None
    /\ moved = FALSE
    /\ query = <<>>
    /\ result = <<>>
    /\ input = <<>>
    /\ input2 = <<>>
    /\ hull = <<>>
    /\ hull2 = <<>>

CallIsCollide ==
    /\ pc = "start"
    /\ \E h \in HashSeeds : collide' = is_collide(shape_a, shape_b, h)
    /\ pc' = "collided"
    /\ UNCHANGED <<shape_a, shape_b, collide_rev, sep, moved>>
    /\ UNCHANGED hull_vars
    /\ UNCHANGED query_vars

CallIsCollideSwapped ==
    /\ pc = "collided"
    /\ \E h \in HashSeeds : collide_rev' = is_collide(shape_b, shape_a, h)
    /\ pc' = "collided_both"
    /\ UNCHANGED <<shape_a, shape_b, collide, sep, moved>>
    /\ UNCHANGED hull_vars
    /\ UNCHANGED query_vars

ShapesNext == CallIsCollide \/ CallIsCollideSwapped

SpecShapes == ShapesInit /\ [][ShapesNext]_vars

SharePoint(a, b) == RegionsMeet(Range(points(a)), Range(points(b)))

\* C2: when one of two shapes is a QPoint or a QLine and the two share a
\* point, is_collide is true, whichever of the two it is called on.
C2_TouchingDegenerateShapesCollide ==
    (pc = "collided_both" /\ SharePoint(shape_a, shape_b))
        => (collide = "true" /\ collide_rev = "true")

\* What is_collide does report: two segments that cross without being
\* parallel, and a point in or on a box, collide.
CrossingLinesAndBoxedPointsCollide ==
    (pc = "collided_both" /\ SharePoint(shape_a, shape_b)
        /\ \/ shape_b.type = "QBbox"
           \/ (shape_a.type = "QLine" /\ shape_b.type = "QLine"
                 /\ ~Collinear(Range(shape_a.pts) \cup Range(shape_b.pts))))
        => (collide = "true" /\ collide_rev = "true")

\* ------------------------------------- callers of get_minkowski_difference
\* The parts of the state a caller of a single operation leaves alone.
IdleHull == input = <<>> /\ input2 = <<>> /\ hull = <<>> /\ hull2 = <<>>
IdleCollide == collide = "unset" /\ collide_rev = "unset" /\ sep = None /\ moved = FALSE

\* The axis-aligned rectangle [x1, x2] x [y1, y2], counter-clockwise.
Rect(x1, y1, x2, y2) ==
    << <<x1, y1>>, <<x2, y1>>, <<x2, y2>>, <<x1, y2>> >>

Rectangles ==
    {Rect(Q(x1), Q(y1), Q(x2), Q(y2)) :
        x1 \in 0..GridMax, y1 \in 0..GridMax, x2 \in 0..GridMax, y2 \in 0..GridMax}
    \ {r \in {Rect(Q(x1), Q(y1), Q(x2), Q(y2)) :
                 x1 \in 0..GridMax, y1 \in 0..GridMax, x2 \in 0..GridMax, y2 \in 0..GridMax} :
          r[1][1] >= r[3][1] \/ r[1][2] >= r[3][2]}

MinkowskiInit ==
    /\ pc = "start"
    /\ shape_a \in {QPolygon(a) : a \in Rectangles \cup Triangles}
    /\ shape_b \in {QPolygon(b) : b \in Rectangles \cup Triangles}
    /\ query = <<>>
    /\ result = <<>>
    /\ IdleHull
    /\ IdleCollide

CallGetMinkowskiDifference ==
    /\ pc = "start"
    /\ \E h \in HashSeeds :
          result' = get_minkowski_difference(shape_a.pts, shape_b.pts, h)
    /\ pc' = "diffed"
    /\ UNCHANGED <<query, shape_vars, hull_vars>>

MinkowskiNext == CallGetMinkowskiDifference

SpecMinkowski == MinkowskiInit /\ [][MinkowskiNext]_vars

\* Least and greatest coordinate (k = 1 for x, 2 for y) of a vertex list.
MinCoord(vertices, k) ==
    CHOOSE m \in {vertices[i][k] : i \in 1..Len(vertices)} :
        \A i \in 1..Len(vertices) : m <= vertices[i][k]
MaxCoord(vertices, k) ==
    CHOOSE m \in {vertices[i][k] : i \in 1..Len(vertices)} :
        \A i \in 1..Len(vertices) : m >= vertices[i][k]

\* The vertex list is the four corners of an axis-aligned rectangle.
IsRectangle(vertices) ==
    /\ Len(vertices) = 4
    /\ MinCoord(vertices, 1) < MaxCoord(vertices, 1)
    /\ MinCoord(vertices, 2) < MaxCoord(vertices, 2)
    /\ Range(vertices) = Range(Rect(MinCoord(vertices, 1), MinCoord(vertices, 2),
                                    MaxCoord(vertices, 1), MaxCoord(vertices, 2)))

IsTriangle(vertices) == Len(vertices) = 3 /\ ~Collinear(Range(vertices))

\* The squares of the three side lengths of a triangle, in exact integers
\* of whole units.
SideSquared(a, b) ==
    ((a[1] - b[1]) \div Scale) * ((a[1] - b[1]) \div Scale)
        + ((a[2] - b[2]) \div Scale) * ((a[2] - b[2]) \div Scale)
Sides(t) == <<SideSquared(t[1], t[2]), SideSquared(t[2], t[3]), SideSquared(t[3], t[1])>>

\* Two triangles are congruent: their sides match in some order.
Congruent(s, t) ==
    \E f \in Permutations(1..3) : \A i \in 1..3 : Sides(s)[i] = Sides(t)[f[i]]

\* t is s moved by some vector, without turning or mirroring it.
IsTranslateOf(s, t) ==
    \E a \in Range(s), b \in Range(t) :
        {<<p[1] - a[1], p[2] - a[2]>> : p \in Range(s)}
            = {<<p[1] - b[1], p[2] - b[2]>> : p \in Range(t)}

\* The rectangle [A.left - B.right, A.right - B.left] x
\* [A.bottom - B.top, A.top - B.bottom].
DifferenceRectangle(a, b) ==
    Rect(MinCoord(a, 1) - MaxCoord(b, 1), MinCoord(a, 2) - MaxCoord(b, 2),
         MaxCoord(a, 1) - MinCoord(b, 1), MaxCoord(a, 2) - MinCoord(b, 2))

RectanglesGiveRectangle ==
    (IsRectangle(shape_a.pts) /\ IsRectangle(shape_b.pts))
        => /\ Len(result) = 4
           /\ Range(result) = Range(DifferenceRectangle(shape_a.pts, shape_b.pts))

IsHullOfDifferences ==
    IsExactHull(all_diff_points(shape_a.pts, shape_b.pts), result)

\* C11 as claimed: the result is the hull of the pairwise differences; for
\* two rectangles it is the four corners of the difference rectangle; for
\* two congruent triangles it has six vertices.
C11_MinkowskiDifferenceShapes ==
    pc = "diffed" =>
        /\ IsHullOfDifferences
        /\ RectanglesGiveRectangle
        /\ (IsTriangle(shape_a.pts) /\ IsTriangle(shape_b.pts)
              /\ Congruent(shape_a.pts, shape_b.pts)) => Len(result) = 6

\* C11 as amended: six vertices when the second triangle is a translate of
\* the first (the same triangle, not turned and not mirrored).
C11_MinkowskiDifferenceOfTranslates ==
    pc = "diffed" =>
        /\ IsHullOfDifferences
        /\ RectanglesGiveRectangle
        /\ (IsTriangle(shape_a.pts) /\ IsTriangle(shape_b.pts)
              /\ IsTranslateOf(shape_a.pts, shape_b.pts)) => Len(result) = 6

\* C11 witness: a triangle and a translate of it at another place, giving
\* a hexagon.
C11_Witness ==
    /\ pc = "diffed"
    /\ IsTriangle(shape_a.pts) /\ IsTriangle(shape_b.pts)
    /\ IsTranslateOf(shape_a.pts, shape_b.pts)
    /\ Range(shape_a.pts) # Range(shape_b.pts)
    /\ Len(result) = 6

\* ------------------------------------------- callers of is_point_inside
\* The cyclic vertex sequence is a simple polygon: no vertex twice, two
\* edges that follow each other share their common vertex only, two others
\* share nothing.
IsSimple(poly) ==
    LET n == Len(poly)
        nxt(i) == (i % n) + 1
    IN  /\ n >= 3
        /\ NoRepeats(poly)
        /\ \A i \in 1..n :
              /\ ~OnSegment(poly[nxt(nxt(i))], poly[i], poly[nxt(i)])
              /\ ~OnSegment(poly[i], poly[nxt(i)], poly[nxt(nxt(i))])
        /\ \A i \in 1..n, j \in 1..n :
              (i < j /\ nxt(i) # j /\ nxt(j) # i)
                  => ~SegmentsMeet(poly[i], poly[nxt(i)], poly[j], poly[nxt(j)])

\* Every list of 3 or 4 distinct grid points that is a simple polygon, in
\* every order and both windings.
GridPolygons ==
    {poly \in (GridPoints \X GridPoints \X GridPoints)
                \cup (GridPoints \X GridPoints \X GridPoints \X GridPoints) :
        IsSimple(poly)}

\* Larger polygons: the triangle with an edge of slope 3, a concave
\* pentagon in both windings, a square with the midpoint of an edge among
\* its vertices.
NamedPolygons ==
    { << <<Q(0), Q(0)>>, <<Q(0), Q(1)>>, <<Q(1), Q(3)>> >>,
      << <<Q(0), Q(0)>>, <<Q(2), Q(0)>>, <<Q(1), Q(1)>>, <<Q(2), Q(2)>>, <<Q(0), Q(2)>> >>,
      << <<Q(0), Q(2)>>, <<Q(2), Q(2)>>, <<Q(1), Q(1)>>, <<Q(2), Q(0)>>, <<Q(0), Q(0)>> >>,
      << <<Q(0), Q(0)>>, <<Q(1), Q(0)>>, <<Q(2), Q(0)>>, <<Q(2), Q(2)>>, <<Q(0), Q(2)>> >> }

\* Query points: every point of the half-unit lattice around the grid, and
\* the points one unit of resolution above and below them.
HalfUnitPoints ==
    {<<i * Half, j * Half>> : i \in -1..(2 * GridMax + 1), j \in -1..(2 * GridMax + 3)}

QueryPoints ==
    HalfUnitPoints \cup {<<p[1], p[2] + e>> : p \in HalfUnitPoints, e \in {-1, 1}}

InsideInit ==
    /\ pc = "start"
    /\ input \in GridPolygons \cup NamedPolygons
    /\ query \in QueryPoints
    /\ result = <<>>
    /\ input2 = <<>> /\ hull = <<>> /\ hull2 = <<>>
    /\ shape_a = NoShape /\ shape_b = NoShape
    /\ IdleCollide

CallIsPointInside ==
    /\ pc = "start"
    /\ result' = is_point_inside(input, query)
    /\ pc' = "asked"
    /\ UNCHANGED <<query, shape_vars, hull_vars>>

InsideNext == CallIsPointInside

SpecInside == InsideInit /\ [][InsideNext]_vars

\* Exact crossing test: the edge a b crosses the horizontal ray going
\* right from p.  The ray's height is between the two ends (the lower end
\* counted, the upper not) and p is strictly left of the edge there.
CrossesRay(p, a, b) ==
    /\ (a[2] > p[2]) # (b[2] > p[2])
    /\ IF b[2] > a[2]
       THEN (p[1] - a[1]) * (b[2] - a[2]) < (p[2] - a[2]) * (b[1] - a[1])
       ELSE (p[1] - a[1]) * (b[2] - a[2]) > (p[2] - a[2]) * (b[1] - a[1])

\* p lies in the closed region of the simple polygon poly: on its boundary
\* or with an odd number of edges crossing the ray.
InClosedRegion(p, poly) ==
    \/ OnBoundary(p, poly)
    \/ Cardinality({i \in 1..Len(poly) :
                       CrossesRay(p, poly[i], poly[(i % Len(poly)) + 1])}) % 2 = 1

\* C12: for a simple polygon and any query point, is_point_inside is true
\* exactly when the point lies in the closed region of the polygon.
C12_PointInsideIffInRegion ==
    pc = "asked" =>
        result = IF InClosedRegion(query, input) THEN "true" ELSE "false"

\* What does hold: the answer is exact for every query point of the
\* half-unit lattice (vertices, edge midpoints, interior and outer points).
PointInsideExactOnHalfUnits ==
    (pc = "asked" /\ query \in HalfUnitPoints) =>
        result = IF InClosedRegion(query, input) THEN "true" ELSE "false"

\* --------------------------------------- ear_clipping_triangulation
\* is_valid_ear: a b c do not lie on one line and no other vertex of the
\* whole shape lies in or on the triangle a b c.
is_valid_ear(shape, a, b, c) ==
    LET cross_product == cross(v_sub(b, a), v_sub(c, b))
    IN  IF cross_product = 0 THEN FALSE
        ELSE \A n \in 1..Len(shape) :
                ~(/\ shape[n] # a /\ shape[n] # b /\ shape[n] # c
                  /\ is_point_inside(<<a, b, c>>, shape[n]) = "true")

\* get_index: the position (from 0) of the first vertex of shape equal to v.
get_index(shape, v) ==
    (CHOOSE n \in 1..Len(shape) :
        shape[n] = v /\ \A m \in 1..(n - 1) : shape[m] # v) - 1

\* The for loop from index i on (1-based): the first i at which the ring
\* has a valid ear, 0 when the loop ends without finding one.
RECURSIVE find_ear(_, _, _)
find_ear(shape, ring, i) ==
    IF i > Len(ring) THEN 0
    ELSE LET j == (i % Len(ring)) + 1
             k == ((i + 1) % Len(ring)) + 1
         IN  IF is_valid_ear(shape, ring[i], ring[j], ring[k]) THEN i
             ELSE find_ear(shape, ring, i + 1)

RemoveAt(s, j) == [n \in 1..(Len(s) - 1) |-> IF n < j THEN s[n] ELSE s[n + 1]]

\* What a call comes to: the indices it returns, a failed assertion, or a
\* while loop that goes round for ever because a pass changed nothing.
Returned(indices) == [tag |-> "Returned", indices |-> indices]
AssertFailed == [tag |-> "Panic", indices |-> <<>>]
LoopsForever == [tag |-> "LoopsForever", indices |-> <<>>]

\* The while loop of ear_clipping_triangulation and what follows it, ring
\* being the vertices still to clip and triangles_indices the output so far.
RECURSIVE clip(_, _, _)
clip(shape, ring, triangles_indices) ==
    IF Len(ring) > 3
    THEN LET i == find_ear(shape, ring, 1)
             j == (i % Len(ring)) + 1
             k == ((i + 1) % Len(ring)) + 1
         IN  IF i = 0 THEN LoopsForever
             ELSE clip(shape, RemoveAt(ring, j),
                       triangles_indices \o <<get_index(shape, ring[k]),
                                              get_index(shape, ring[j]),
                                              get_index(shape, ring[i])>>)
    ELSE IF Len(ring) # 3 THEN AssertFailed
    ELSE Returned(triangles_indices \o <<get_index(shape, ring[3]),
                                         get_index(shape, ring[2]),
                                         get_index(shape, ring[1])>>)

ear_clipping_triangulation(shape) == clip(shape, shape, <<>>)

\* Callers: every simple polygon of 3, 4 or 5 grid points, in every order
\* and both windings, and two hexagons.
EarPolygons ==
    GridPolygons
    \cup {poly \in GridPoints \X GridPoints \X GridPoints \X GridPoints \X GridPoints :
             IsSimple(poly)}
    \cup { << <<Q(0), Q(0)>>, <<Q(1), Q(0)>>, <<Q(2), Q(0)>>,
              <<Q(2), Q(2)>>, <<Q(1), Q(1)>>, <<Q(0), Q(2)>> >>,
           << <<Q(0), Q(0)>>, <<Q(2), Q(0)>>, <<Q(2), Q(1)>>,
              <<Q(1), Q(1)>>, <<Q(1), Q(2)>>, <<Q(0), Q(2)>> >> }

EarInit ==
    /\ pc = "start"
    /\ input \in EarPolygons
    /\ query = <<>>
    /\ result = <<>>
    /\ input2 = <<>> /\ hull = <<>> /\ hull2 = <<>>
    /\ shape_a = NoShape /\ shape_b = NoShape
    /\ IdleCollide

CallEarClipping ==
    /\ pc = "start"
    /\ result' = ear_clipping_triangulation(input)
    /\ pc' = "clipped"
    /\ UNCHANGED <<query, shape_vars, hull_vars>>

EarNext == CallEarClipping

SpecEar == EarInit /\ [][EarNext]_vars

\* C13: on a simple polygon with n distinct vertices the call returns, and
\* returns 3 * (n - 2) indices, each a position 0..n-1 of the vertex list.
C13_EarClippingIndexCount ==
    (pc = "clipped" /\ IsSimple(input)) =>
        /\ result.tag = "Returned"
        /\ Len(result.indices) = 3 * (Len(input) - 2)
        /\ \A n \in 1..Len(result.indices) : result.indices[n] \in 0..(Len(input) - 1)

\* What does hold: on a convex polygon, in either winding and with or
\* without vertices inside an edge, the call returns 3 * (n - 2) indices.
EarClippingReturnsWhenConvex ==
    (/\ pc = "clipped" /\ IsSimple(input)
     /\ \/ \A n \in 1..Len(input) : TurnAt(input, n) >= 0
        \/ \A n \in 1..Len(input) : TurnAt(input, n) <= 0) =>
        /\ result.tag = "Returned"
        /\ Len(result.indices) = 3 * (Len(input) - 2)
        /\ \A n \in 1..Len(result.indices) : result.indices[n] \in 0..(Len(input) - 1)

\* Twice the signed area enclosed by the cyclic vertex sequence.
SignedArea2(poly) ==
    LET RECURSIVE sum(_)
        sum(n) == IF n = 0 THEN 0
                  ELSE sum(n - 1)
                       + ((poly[n][1] \div Half) * (poly[(n % Len(poly)) + 1][2] \div Half)
                          - (poly[(n % Len(poly)) + 1][1] \div Half) * (poly[n][2] \div Half))
    IN  sum(Len(poly))

IsCounterClockwise(poly) == IsSimple(poly) /\ SignedArea2(poly) > 0

\* The n-th triangle of the output (vertices of the input, by index).
TriangleAt(n) ==
    <<input[result.indices[3 * n - 2] + 1],
      input[result.indices[3 * n - 1] + 1],
      input[result.indices[3 * n] + 1]>>

\* C14: for a simple polygon given counter-clockwise, every triangle of the
\* output has its three vertices in clockwise order.
C14_TrianglesClockwise ==
    (pc = "clipped" /\ IsCounterClockwise(input) /\ result.tag = "Returned") =>
        \A n \in 1..(Len(result.indices) \div 3) :
            Orient(TriangleAt(n)[1], TriangleAt(n)[2], TriangleAt(n)[3]) < 0

\* What does hold: for a convex polygon given counter-clockwise every
\* triangle of the output is clockwise.
TrianglesClockwiseWhenConvex ==
    (/\ pc = "clipped" /\ IsCounterClockwise(input) /\ result.tag = "Returned"
     /\ \A n \in 1..Len(input) : TurnAt(input, n) >= 0) =>
        \A n \in 1..(Len(result.indices) \div 3) :
            Orient(TriangleAt(n)[1], TriangleAt(n)[2], TriangleAt(n)[3]) < 0

\* ------------------------------------------------------- get_centroid
\* The loop of get_centroid from vertex i on: the saturating sum of the
\* differences of coordinate k (1 for x, 2 for y) from the baseline.
RECURSIVE sum_diff_from(_, _, _, _, _)
sum_diff_from(vertices, k, baseline, i, sum_diff) ==
    IF i > Len(vertices) THEN sum_diff
    ELSE sum_diff_from(vertices, k, baseline, i + 1,
                       q_add(sum_diff, q_sub(vertices[i][k], baseline)))

centroid_coord(vertices, k) ==
    LET baseline == vertices[1][k]
        sum_diff == sum_diff_from(vertices, k, baseline, 1, 0)
        sum_diff_avg == q_div(sum_diff, Q(Len(vertices)))
    IN  q_add(baseline, sum_diff_avg)

get_centroid(vertices) ==
    IF Len(vertices) = 0 THEN ZERO
    ELSE <<centroid_coord(vertices, 1), centroid_coord(vertices, 2)>>

\* Callers: vertices about the origin and at, or one unit inside, the
\* corners of the representable range; lists of 1 to 4 of them.
CentroidPoints ==
    {<<Q(0), Q(0)>>, <<Q(1), Q(0)>>, <<Q(1), Q(1)>>, <<Q(0), Q(1)>>,
     <<QMAX, QMAX>>, <<QMAX, QMIN>>, <<QMIN, QMIN>>, <<QMIN, QMAX>>,
     <<QMAX - Q(1), QMAX>>, <<QMAX, QMAX - Q(1)>>, <<QMIN + Q(1), QMIN>>}

CentroidLists ==
    {<<>>}
    \cup {<<p>> : p \in CentroidPoints}
    \cup (CentroidPoints \X CentroidPoints)
    \cup (CentroidPoints \X CentroidPoints \X CentroidPoints)
    \cup (CentroidPoints \X CentroidPoints \X CentroidPoints \X CentroidPoints)

CentroidInit ==
    /\ pc = "start"
    /\ input \in CentroidLists
    /\ query = <<>>
    /\ result = <<>>
    /\ input2 = <<>> /\ hull = <<>> /\ hull2 = <<>>
    /\ shape_a = NoShape /\ shape_b = NoShape
    /\ IdleCollide

CallGetCentroid ==
    /\ pc = "start"
    /\ result' = get_centroid(input)
    /\ pc' = "averaged"
    /\ UNCHANGED <<query, shape_vars, hull_vars>>

CentroidNext == CallGetCentroid

SpecCentroid == CentroidInit /\ [][CentroidNext]_vars

\* Quotient and remainder of x by n with a remainder in 0..n-1.
FloorDiv(x, n) == IF x >= 0 THEN x \div n ELSE -((-x + n - 1) \div n)
FloorMod(x, n) == x - n * FloorDiv(x, n)

\* The true average of coordinate k rounded down to the resolution, summed
\* part by part so that the sum stays in range.
AverageFloor(vertices, k) ==
    LET n == Len(vertices)
        wholes == [i \in 1..n |-> FloorDiv(vertices[i][k], n)]
        rests == [i \in 1..n |-> FloorMod(vertices[i][k], n)]
        Total(f) == LET RECURSIVE t(_)
                        t(i) == IF i = 0 THEN 0 ELSE t(i - 1) + f[i]
                    IN  t(n)
    IN  Total(wholes) + (Total(rests) \div n)

AverageIsExact(vertices, k) ==
    LET n == Len(vertices)
        Total == LET RECURSIVE t(_)
                     t(i) == IF i = 0 THEN 0 ELSE t(i - 1) + FloorMod(vertices[i][k], n)
                 IN  t(n)
    IN  Total % n = 0

\* c is the average of coordinate k: the average itself when it is a value
\* of the resolution, else one of the two values of the resolution next to it.
IsAverage(c, vertices, k) ==
    \/ c = AverageFloor(vertices, k)
    \/ (~AverageIsExact(vertices, k) /\ c = AverageFloor(vertices, k) + 1)

\* C15: get_centroid returns the average of the vertices for every vertex
\* list in the representable range, near the bounds included.
C15_CentroidIsAverage ==
    (pc = "averaged" /\ Len(input) > 0) =>
        /\ IsAverage(result[1], input, 1)
        /\ IsAverage(result[2], input, 2)

\* What does hold: the average is right when every vertex is within one
\* unit of the first, wherever in the range the vertices lie.
CentroidIsAverageOfNearbyVertices ==
    (/\ pc = "averaged" /\ Len(input) > 0
     /\ \A i \in 1..Len(input), k \in 1..2 :
           Abs(input[i][k] - input[1][k]) <= Q(1)) =>
        /\ IsAverage(result[1], input, 1)
        /\ IsAverage(result[2], input, 2)

\* ------------------------------------------------------------ get_bbox
\* Q64::EPS, the smallest positive scalar.
EPS == 1

\* A circle is its centre and its radius.
QCircle(center, radius) == [type |-> "QCircle", pts |-> <<center>>, radius |-> radius]

\* The operators + and - of the vector, as against saturating_add and
\* saturating_sub: what they do with a result outside the range is the
\* numeric library's and the build's choice.  They clamp it, wrap it round
\* or stop the program; overflow tells which.
OverflowModes == {"saturates", "wraps", "panics"}
InRange(x) == QMIN <= x /\ x <= QMAX
Wrapped(x) ==
    IF x > QMAX THEN ((x - QMAX) - 1) + QMIN
    ELSE IF x < QMIN THEN ((x - QMIN) + 1) + QMAX
    ELSE x
Overflowed(x, overflow) == IF overflow = "saturates" THEN Sat(x) ELSE Wrapped(x)

\* A call that did not return.
Failed == [type |-> "Panic", pts |-> <<>>]

\* QBbox::new with its assertion.
bbox_new(left_bottom, right_top) ==
    IF left_bottom[1] < right_top[1] /\ left_bottom[2] < right_top[2]
    THEN QBbox(left_bottom, right_top)
    ELSE Failed

Min(a, b) == IF a < b THEN a ELSE b
Max(a, b) == IF a > b THEN a ELSE b

point_get_bbox(pos, overflow) ==
    LET low == <<pos[1] - EPS, pos[2] - EPS>>
        high == <<pos[1] + EPS, pos[2] + EPS>>
    IN  IF /\ overflow = "panics"
           /\ ~(InRange(low[1]) /\ InRange(low[2]) /\ InRange(high[1]) /\ InRange(high[2]))
        THEN Failed
        ELSE bbox_new(<<Overflowed(low[1], overflow), Overflowed(low[2], overflow)>>,
                      <<Overflowed(high[1], overflow), Overflowed(high[2], overflow)>>)

line_get_bbox(start, end) ==
    LET min_x == Min(start[1], end[1])
        min_y == Min(start[2], end[2])
        max_x == Max(start[1], end[1])
        max_y == Max(start[2], end[2])
        flat_x == min_x = max_x
        flat_y == min_y = max_y
    IN  bbox_new(<<IF flat_x THEN q_sub(min_x, EPS) ELSE min_x,
                   IF flat_y THEN q_sub(min_y, EPS) ELSE min_y>>,
                 <<IF flat_x THEN q_add(max_x, EPS) ELSE max_x,
                   IF flat_y THEN q_add(max_y, EPS) ELSE max_y>>)

circle_get_bbox(center, radius) ==
    bbox_new(<<q_sub(center[1], radius), q_sub(center[2], radius)>>,
             <<q_add(center[1], radius), q_add(center[2], radius)>>)

\* QShapeCommon::get_bbox of each variant; QPolygon's is unimplemented!().
get_bbox(shape, overflow) ==
    IF shape.type = "QPoint" THEN point_get_bbox(shape.pts[1], overflow)
    ELSE IF shape.type = "QLine" THEN line_get_bbox(shape.pts[1], shape.pts[2])
    ELSE IF shape.type = "QBbox" THEN shape
    ELSE IF shape.type = "QCircle" THEN circle_get_bbox(shape.pts[1], shape.radius)
    ELSE Failed

\* Callers: shapes of the five variants on the grid, and points, segments
\* and circles at the corners of the representable range.
CornerPoints == {<<QMAX, QMAX>>, <<QMIN, QMIN>>, <<QMAX, Q(0)>>, <<Q(0), QMIN>>}

CircleShapes ==
    {QCircle(c, r) : c \in GridPoints \cup CornerPoints, r \in {EPS, Half, Q(1), QMAX}}

BboxCallers ==
    PointShapes \cup {QPoint(p) : p \in CornerPoints}
    \cup LineShapes
    \cup {QLine(p, <<p[1], Q(1)>>) : p \in CornerPoints}
    \cup BboxShapes
    \cup CircleShapes
    \cup {QPolygon(t) : t \in Triangles \cup Rectangles}

BboxInit ==
    /\ pc = "start"
    /\ shape_a \in BboxCallers
    /\ shape_b = NoShape
    /\ query = <<>>
    /\ result = <<>>
    /\ IdleHull
    /\ IdleCollide

CallGetBbox ==
    /\ pc = "start"
    /\ \E overflow \in OverflowModes : result' = get_bbox(shape_a, overflow)
    /\ pc' = "boxed"
    /\ UNCHANGED <<query, shape_vars, hull_vars>>

BboxNext == CallGetBbox

SpecBbox == BboxInit /\ [][BboxNext]_vars

IsBbox(b) ==
    /\ b.type = "QBbox"
    /\ b.pts[1][1] < b.pts[2][1]
    /\ b.pts[1][2] < b.pts[2][2]

\* C16: get_bbox of every shape of every variant returns a box with
\* left_bottom < right_top in both axes.
C16_EveryShapeHasBbox ==
    pc = "boxed" => IsBbox(result)

\* What does hold: get_bbox returns such a box for every segment, box and
\* circle, and for every point that is not on the edge of the range.
BboxOfAllButPolygons ==
    (/\ pc = "boxed" /\ shape_a.type # "QPolygon"
     /\ shape_a.type = "QPoint" =>
           \A k \in 1..2 : QMIN < shape_a.pts[1][k] /\ shape_a.pts[1][k] < QMAX)
        => IsBbox(result)

\* ------------------------------------ constructors and mutators of QLine
\* A caller that builds a segment and then changes it; shape_a is the
\* segment it holds.  A failed assertion ends the caller (pc = "panicked").
LineInit ==
    /\ pc = "start"
    /\ shape_a = NoShape
    /\ shape_b = NoShape
    /\ query = <<>>
    /\ result = <<>>
    /\ IdleHull
    /\ IdleCollide

LineFrame == UNCHANGED <<shape_b, collide, collide_rev, sep, moved, query, result, hull_vars>>

\* QLine::new(start, end)
LineNew ==
    /\ pc \in {"start", "line"}
    /\ \E start \in GridPoints, end \in GridPoints :
          IF start # end
          THEN shape_a' = QLine(start, end) /\ pc' = "line"
          ELSE shape_a' = shape_a /\ pc' = "panicked"
    /\ LineFrame

\* QLine::new_from_parts(start, end), which calls new.
LineNewFromParts ==
    /\ pc \in {"start", "line"}
    /\ \E start \in GridPoints, end \in GridPoints :
          IF start # end
          THEN shape_a' = QLine(start, end) /\ pc' = "line"
          ELSE shape_a' = shape_a /\ pc' = "panicked"
    /\ LineFrame

\* QLine::new_from_zero(end)
LineNewFromZero ==
    /\ pc \in {"start", "line"}
    /\ \E end \in GridPoints : shape_a' = QLine(ZERO, end)
    /\ pc' = "line"
    /\ LineFrame

\* line.set_start(start)
LineSetStart ==
    /\ pc = "line"
    /\ \E start \in GridPoints : shape_a' = QLine(start, shape_a.pts[2])
    /\ pc' = "line"
    /\ LineFrame

\* line.set_end(end)
LineSetEnd ==
    /\ pc = "line"
    /\ \E end \in GridPoints : shape_a' = QLine(shape_a.pts[1], end)
    /\ pc' = "line"
    /\ LineFrame

\* *line.start_mut() = start: a write through the reference handed out.
LineStartMut ==
    /\ pc = "line"
    /\ \E start \in GridPoints : shape_a' = QLine(start, shape_a.pts[2])
    /\ pc' = "line"
    /\ LineFrame

\* *line.end_mut() = end
LineEndMut ==
    /\ pc = "line"
    /\ \E end \in GridPoints : shape_a' = QLine(shape_a.pts[1], end)
    /\ pc' = "line"
    /\ LineFrame

LineNext ==
    \/ LineNew \/ LineNewFromParts \/ LineNewFromZero
    \/ LineSetStart \/ LineSetEnd \/ LineStartMut \/ LineEndMut

SpecLine == LineInit /\ [][LineNext]_vars

\* C17: every segment a caller can come to hold has start # end.
C17_LineNeverDegenerate ==
    shape_a.type = "QLine" => shape_a.pts[1] # shape_a.pts[2]

\* What does hold: a segment that new or new_from_parts hands out has
\* start # end.
OnlyUncheckedStepsDegenerate ==
    [][((LineNew \/ LineNewFromParts) /\ pc' = "line")
          => shape_a'.pts[1] # shape_a'.pts[2]]_vars

\* ---------------------------------- constructor and mutators of QCircle
Radii == {-Q(1), -EPS, 0, EPS, Half, Q(1), Q(2)}

CircleInit ==
    /\ pc = "start"
    /\ shape_a = NoShape
    /\ shape_b = NoShape
    /\ query = <<>>
    /\ result = <<>>
    /\ IdleHull
    /\ IdleCollide

\* QCircle::new(center, radius)
CircleNew ==
    /\ pc \in {"start", "circle"}
    /\ \E center \in GridPoints, radius \in Radii :
          IF radius > 0
          THEN shape_a' = QCircle(center, radius) /\ pc' = "circle"
          ELSE shape_a' = shape_a /\ pc' = "panicked"
    /\ LineFrame

\* circle.set_radius(radius)
CircleSetRadius ==
    /\ pc = "circle"
    /\ \E radius \in Radii : shape_a' = QCircle(shape_a.pts[1], radius)
    /\ pc' = "circle"
    /\ LineFrame

\* *circle.radius_mut() = radius
CircleRadiusMut ==
    /\ pc = "circle"
    /\ \E radius \in Radii : shape_a' = QCircle(shape_a.pts[1], radius)
    /\ pc' = "circle"
    /\ LineFrame

\* circle.set_center(center)
CircleSetCenter ==
    /\ pc = "circle"
    /\ \E center \in GridPoints : shape_a' = QCircle(center, shape_a.radius)
    /\ pc' = "circle"
    /\ LineFrame

\* *circle.center_mut() = center
CircleCenterMut ==
    /\ pc = "circle"
    /\ \E center \in GridPoints : shape_a' = QCircle(center, shape_a.radius)
    /\ pc' = "circle"
    /\ LineFrame

CircleNext ==
    \/ CircleNew \/ CircleSetRadius \/ CircleRadiusMut
    \/ CircleSetCenter \/ CircleCenterMut

SpecCircle == CircleInit /\ [][CircleNext]_vars

\* C18: every circle a caller can come to hold has radius > 0.
C18_RadiusAlwaysPositive ==
    shape_a.type = "QCircle" => shape_a.radius > 0

\* What does hold: new, set_center and center_mut keep the radius positive.
RadiusPositiveWithoutRadiusWrites ==
    [][(shape_a.type = "QCircle" => shape_a.radius > 0)
        /\ (CircleNew \/ CircleSetCenter \/ CircleCenterMut)
        => (shape_a'.type = "QCircle" => shape_a'.radius > 0)]_vars

\* ------------------------------ callers of get_nearest_lines_index_to_point
\* The value of a call that returns the index list rst.
Indices(rst) == [tag |-> "Vec", v |-> rst]

\* Vertex lists of 0 to 3 grid points, repeated points included, and three
\* longer ones: a square, a square listed with one corner twice in a row, a
\* concave pentagon.
NearestLists ==
    {<<>>} \cup {<<p>> : p \in GridPoints} \cup (GridPoints \X GridPoints)
        \cup (GridPoints \X GridPoints \X GridPoints)
        \cup { Rect(Q(0), Q(0), Q(2), Q(2)),
               << <<Q(0), Q(0)>>, <<Q(2), Q(0)>>, <<Q(2), Q(0)>>, <<Q(2), Q(2)>>, <<Q(0), Q(2)>> >>,
               << <<Q(0), Q(0)>>, <<Q(2), Q(0)>>, <<Q(1), Q(1)>>, <<Q(2), Q(2)>>, <<Q(0), Q(2)>> >> }

NearestQueries ==
    {<<i * Half, j * Half>> : i \in -1..(2 * GridMax + 1), j \in -1..(2 * GridMax + 1)}

NearestInit ==
    /\ pc = "start"
    /\ input \in NearestLists
    /\ query \in NearestQueries
    /\ result = <<>>
    /\ input2 = <<>> /\ hull = <<>> /\ hull2 = <<>>
    /\ shape_a = NoShape /\ shape_b = NoShape
    /\ IdleCollide

CallGetNearestLines ==
    /\ pc = "start"
    /\ result' = IF nearest_lines_panics(input) THEN Panic
                 ELSE Indices(get_nearest_lines_index_to_point(input, query))
    /\ pc' = "asked"
    /\ UNCHANGED <<query, shape_vars, hull_vars>>

NearestNext == CallGetNearestLines

SpecNearest == NearestInit /\ [][NearestNext]_vars

\* The edge ending at vertex i (1-based) starts at the vertex before it,
\* the last one for i = 1.
EdgeStart(poly, i) == IF i = 1 THEN Len(poly) ELSE i - 1

DistanceToEdge(poly, point, i) ==
    get_distance_from_point(<<poly[EdgeStart(poly, i)], poly[i]>>, point)

IsNearestEdge(poly, point, i) ==
    \A k \in 1..Len(poly) :
        DistanceToEdge(poly, point, i) <= DistanceToEdge(poly, point, k)

\* The pairs (j, i), counted from 0, of the edges at the least distance, in
\* the order of their end vertex i from vertex i on.
RECURSIVE NearestPairsFrom(_, _, _)
NearestPairsFrom(poly, point, i) ==
    IF i > Len(poly) THEN <<>>
    ELSE (IF IsNearestEdge(poly, point, i)
          THEN <<EdgeStart(poly, i) - 1, i - 1>> ELSE <<>>)
         \o NearestPairsFrom(poly, point, i + 1)

NearestPairs(poly, point) ==
    IF Len(poly) < 2 THEN <<>>
    ELSE IF Len(poly) = 2 THEN <<0, 1>>
    ELSE NearestPairsFrom(poly, point, 1)

\* C19: get_nearest_lines_index_to_point returns [] below 2 vertices,
\* [0, 1] for 2 vertices, and for 3 or more vertices the pairs (j, i) of
\* exactly the edges at the least clamped distance from the query point, in
\* scan order from the wrap-around edge (n-1, 0) on.
C19_NearestLinesAreTiedMinimum ==
    pc = "asked" => result = Indices(NearestPairs(input, query))

\* What holds: the call returns those pairs whenever no two cyclically
\* consecutive vertices of a list of 3 or more are equal.
NearestLinesWithoutRepeatedVertex ==
    (pc = "asked" /\ ~nearest_lines_panics(input))
        => result = Indices(NearestPairs(input, query))

\* The failure is the panic of QLine::new and nothing else.
NearestLinesPanicsOnRepeatedVertex ==
    (pc = "asked" /\ nearest_lines_panics(input)) => result = Panic

\* ------------------------------- callers of get_farest_point_in_direction
\* QDir::new_from_vec: the unit vector along v, each component divided by
\* the length of v.  to_vec gives that vector back.
new_from_vec(v) == <<q_div(v[1], length(v)), q_div(v[2], length(v))>>

\* The value of a call that returns the QPoint p.
Point(p) == [tag |-> "QPoint", v |-> p]

\* Iterator::max_by over the vertices from index i on, best being the
\* vertex kept so far: the kept vertex stays only when it compares
\* Greater, so of several equal maxima the last one is returned.
RECURSIVE max_by_from(_, _, _, _)
max_by_from(vertices, dir, i, best) ==
    IF i > Len(vertices) THEN best
    ELSE LET dot_a == dot(best, dir)
             dot_b == dot(vertices[i], dir)
         IN  max_by_from(vertices, dir, i + 1, IF dot_a > dot_b THEN best ELSE vertices[i])

\* max_by returns None on an empty list and expect panics on it.
get_farest_point_in_direction(vertices, dir) ==
    IF Len(vertices) = 0 THEN Panic
    ELSE Point(max_by_from(vertices, dir, 2, vertices[1]))

\* The eight directions along the axes and the diagonals.
DirectionVectors == {<<Q(x), Q(y)>> : x \in -1..1, y \in -1..1} \ {ZERO}

Directions == {new_from_vec(v) : v \in DirectionVectors}

\* Vertex lists of 0 to 3 grid points, and three longer ones: a square in
\* both windings and a concave pentagon.
FarthestLists ==
    {<<>>} \cup {<<p>> : p \in GridPoints} \cup (GridPoints \X GridPoints)
        \cup (GridPoints \X GridPoints \X GridPoints)
        \cup { Rect(Q(0), Q(0), Q(1), Q(1)),
               << <<Q(0), Q(0)>>, <<Q(0), Q(1)>>, <<Q(1), Q(1)>>, <<Q(1), Q(0)>> >>,
               << <<Q(0), Q(0)>>, <<Q(2), Q(0)>>, <<Q(1), Q(1)>>, <<Q(2), Q(2)>>, <<Q(0), Q(2)>> >> }

FarthestInit ==
    /\ pc = "start"
    /\ input \in FarthestLists
    /\ query \in Directions
    /\ result = <<>>
    /\ input2 = <<>> /\ hull = <<>> /\ hull2 = <<>>
    /\ shape_a = NoShape /\ shape_b = NoShape
    /\ IdleCollide

CallGetFarestPoint ==
    /\ pc = "start"
    /\ result' = get_farest_point_in_direction(input, query)
    /\ pc' = "asked"
    /\ UNCHANGED <<query, shape_vars, hull_vars>>

FarthestNext == CallGetFarestPoint

SpecFarthest == FarthestInit /\ [][FarthestNext]_vars

\* The positions (1-based) of the vertices whose dot product with dir is
\* the greatest.
FarthestPositions(poly, dir) ==
    {i \in 1..Len(poly) : \A k \in 1..Len(poly) : dot(poly[i], dir) >= dot(poly[k], dir)}

Least(S) == CHOOSE i \in S : \A k \in S : i <= k
Greatest(S) == CHOOSE i \in S : \A k \in S : i >= k

\* C20: of the vertices whose dot product with the direction is the
\* greatest, get_farest_point_in_direction returns the one that comes first
\* in the vertex order; on an empty polygon it panics.
C20_ReturnsFirstFarthest ==
    pc = "asked" =>
        result = IF input = <<>> THEN Panic
                 ELSE Point(input[Least(FarthestPositions(input, query))])

\* What holds: the call returns the farthest vertex that comes last in the
\* vertex order, and panics on an empty polygon and on nothing else.
ReturnsLastFarthest ==
    pc = "asked" =>
        result = IF input = <<>> THEN Panic
                 ELSE Point(input[Greatest(FarthestPositions(input, query))])

\* ------------------------------------- gjk and epa on arbitrary polygons
\* What Q64::saturating_div does with a zero divisor is decided outside
\* the program: it panics, as integer division does, or it clamps.
DivZeroModes == {"panics", "saturates"}

\* The edge epa takes the perpendicular vector of: the first pair of
\* nearest_lines_index.
epa_line(minkowski_difference) ==
    LET nearest_lines_index == get_nearest_lines_index_to_point(minkowski_difference, ZERO)
    IN  <<minkowski_difference[nearest_lines_index[1] + 1],
          minkowski_difference[nearest_lines_index[2] + 1]>>

\* epa comes to get_perpendicular_vector_from_point with an edge whose
\* vector_ab.dot(vector_ab) is zero: the divisor of saturating_div.
epa_divides_by_zero(a, b, h) ==
    LET minkowski_difference == get_minkowski_difference(a, b, h)
    IN  /\ is_point_inside(minkowski_difference, ZERO) = "true"
        /\ ~nearest_lines_panics(minkowski_difference)
        /\ Len(get_nearest_lines_index_to_point(minkowski_difference, ZERO)) >= 2
        /\ epa_line(minkowski_difference)[1] # epa_line(minkowski_difference)[2]
        /\ LET vector_ab == line_vector(epa_line(minkowski_difference))
           IN  dot(vector_ab, vector_ab) = 0

\* get_perpendicular_vector_from_point with the quotient clamped: the
\* largest scalar with the sign of the dividend.
perpendicular_vector_clamped(line, point) ==
    LET vector_ab == v_sub(line[2], line[1])
        vector_ap == v_sub(point, line[1])
        dividend == dot(vector_ap, vector_ab)
        t == IF dividend > 0 THEN QMAX ELSE IF dividend < 0 THEN QMIN ELSE 0
    IN  v_add(v_sub(line[1], point), v_mul_num(vector_ab, t))

\* epa, the zero divisor included.
epa_any(a, b, h, div_zero) ==
    IF epa_divides_by_zero(a, b, h)
    THEN IF div_zero = "panics" THEN Panic
         ELSE Some(perpendicular_vector_clamped(
                       epa_line(get_minkowski_difference(a, b, h)), ZERO))
    ELSE epa(a, b, h)

UnitPoints == {<<Q(x), Q(y)>> : x \in 0..1, y \in 0..1}

\* Every list of 0 to 3 corners of the unit square, repeated corners and
\* every order included.
CornerLists ==
    {<<>>} \cup {<<p>> : p \in UnitPoints} \cup (UnitPoints \X UnitPoints)
        \cup (UnitPoints \X UnitPoints \X UnitPoints)

\* Longer first polygons: a square around (1, 1), the same with a corner
\* listed twice and in another order, four collinear points, and a
\* trapezoid around the origin whose bottom edge is 20 units of resolution
\* long.
LongLists ==
    { Rect(Q(0), Q(0), Q(2), Q(2)),
      << <<Q(2), Q(2)>>, <<Q(0), Q(0)>>, <<Q(2), Q(0)>>, <<Q(2), Q(0)>>, <<Q(0), Q(2)>> >>,
      << <<Q(0), Q(0)>>, <<Q(1), Q(1)>>, <<Q(2), Q(2)>>, <<Q(1), Q(1)>> >>,
      << <<-10, -5>>, <<10, -5>>, <<Q(1), Q(1)>>, <<-Q(1), Q(1)>> >> }

AnyInit ==
    /\ pc = "start"
    /\ shape_a \in {QPolygon(a) : a \in CornerLists \cup LongLists}
    /\ shape_b \in {QPolygon(b) : b \in CornerLists}
    /\ IdleCollide
    /\ IdleHull
    /\ query = <<>>
    /\ result = <<>>

AnyGjk ==
    /\ pc = "start"
    /\ \E h \in HashSeeds : collide' = gjk(shape_a.pts, shape_b.pts, h)
    /\ pc' = "gjk"
    /\ UNCHANGED <<shape_a, shape_b, collide_rev, sep, moved>>
    /\ UNCHANGED hull_vars
    /\ UNCHANGED query_vars

\* query records the hash order and the handling of a zero divisor of
\* this call.
AnyEpa ==
    /\ pc = "gjk"
    /\ \E h \in HashSeeds, div_zero \in DivZeroModes :
          /\ sep' = epa_any(shape_a.pts, shape_b.pts, h, div_zero)
          /\ query' = <<h, div_zero>>
    /\ pc' = "epa"
    /\ UNCHANGED <<shape_a, shape_b, collide, collide_rev, moved, result>>
    /\ UNCHANGED hull_vars

AnyNext == AnyGjk \/ AnyEpa

SpecAny == AnyInit /\ [][AnyNext]_vars

OnlyTheDivisionPanics ==
    /\ pc \in {"gjk", "epa"} => collide \in {"true", "false"}
    /\ (pc = "epa" /\ sep = Panic)
          => (query[2] = "panics" /\ epa_divides_by_zero(shape_a.pts, shape_b.pts, query[1]))

\* Whenever the origin is inside the difference polygon, the nearest-edge
\* search returns at least 2 indices and no two consecutive vertices of
\* the difference polygon are equal.
EpaAssertionHolds ==
    pc = "start" =>
        \A h \in HashSeeds :
            LET minkowski_difference == get_minkowski_difference(shape_a.pts, shape_b.pts, h)
            IN  /\ ~nearest_lines_panics(minkowski_difference)
                /\ is_point_inside(minkowski_difference, ZERO) = "true"
                      => Len(get_nearest_lines_index_to_point(minkowski_difference, ZERO)) >= 2

\* ------------------------ ear_clipping_triangulation on any vertex list
\* Every list of 3 or 4 grid points: repeated points, collinear and
\* all-collinear lists and crossing outlines included; and a pentagon with
\* two collinear runs.
AnyVertexLists ==
    (GridPoints \X GridPoints \X GridPoints)
        \cup (GridPoints \X GridPoints \X GridPoints \X GridPoints)
        \cup { << <<Q(0), Q(0)>>, <<Q(1), Q(0)>>, <<Q(2), Q(0)>>, <<Q(2), Q(2)>>, <<Q(1), Q(1)>> >> }

EarAnyInit ==
    /\ pc = "start"
    /\ input \in AnyVertexLists
    /\ query = <<>>
    /\ result = <<>>
    /\ input2 = <<>> /\ hull = <<>> /\ hull2 = <<>>
    /\ shape_a = NoShape /\ shape_b = NoShape
    /\ IdleCollide

SpecEarAny == EarAnyInit /\ [][EarNext]_vars

AllCollinear(poly) ==
    \A i \in 1..Len(poly), j \in 1..Len(poly), k \in 1..Len(poly) :
        Orient(poly[i], poly[j], poly[k]) = 0

\* C22: on every list of 3 or more vertices the while loop ends and the
\* call returns.
C22_EarClippingTerminates ==
    pc = "clipped" => result.tag = "Returned"

\* What holds: a list of 3 vertices is returned at once, the assertion
\* after the loop never fails, a call that returns gives 3 * (n - 2)
\* indices, and a list of 4 or more vertices all on one line never returns.
EarClippingReturnsOrScansForever ==
    pc = "clipped" =>
        /\ result.tag \in {"Returned", "LoopsForever"}
        /\ Len(input) = 3 => result.tag = "Returned"
        /\ result.tag = "Returned" => Len(result.indices) = 3 * (Len(input) - 2)
        /\ (Len(input) > 3 /\ AllCollinear(input)) => result.tag = "LoopsForever"

====
